---- MODULE Spec2Model ----
(***************************************************************************)
(* Model of the task runner of gake (package tasking): Main, RunTasks,     *)
(* tRunner, the Context operations (Fail, FailNow, SkipNow, Parallel), the *)
(* report function, the alarm, and the matchString selector generated by   *)
(* the gake command.                                                       *)
(*                                                                         *)
(* Goroutines are processes with a program counter; an unbuffered channel  *)
(* operation is one joint step of its sender and its receiver.  A task     *)
(* body (InternalTask.F) is an arbitrary program over the Context          *)
(* operations: at every step it picks its next operation.  An unrecovered  *)
(* panic ends the whole process in one step.                               *)
(***************************************************************************)
EXTENDS Integers, Sequences, FiniteSets, TLC

\* ---------------------------------------------------------------- bounds
MaxCtx == 2         \* len(tasks) * len(cpuList), the Contexts of a run, is 0..MaxCtx
MaxBodyLen == 2     \* non-terminal Context operations per task body
MaxPar == 2         \* -task.parallel ranges over 0..MaxPar
MaxProcs == 2       \* -task.cpu lists are the increasing lists over 1..MaxProcs

VARIABLES
    tasks,        \* []InternalTask: the registry (names; bodies are arbitrary)
    match,        \* *match, the -task.run pattern
    cpuList,      \* cpuList after parseCpuList
    parallel,     \* *parallel
    chatty,       \* *chatty
    timeout,      \* *timeout
    proc,         \* the process: "running", "exit0", "exit1", or the panic that ended it
    mainPc,       \* position of the main goroutine
    di,           \* index into cpuList of the current degree
    i,            \* RunTasks loop variable i (1-based)
    numParallel,  \* RunTasks local
    running,      \* RunTasks local
    ok,           \* RunTasks named result
    err,          \* err of the last matchString call in RunTasks
    matchPat,     \* matchString's cache: pattern
    matchRe,      \* matchString's cache: compiled pattern
    timer,        \* the alarm timer is armed
    stdout,       \* lines printed so far
    t,            \* the Contexts (T), one per degree and registry entry
    fwd           \* the forwarding goroutines (collector <- <-t.signal)

\* The gake command (package main: flag.go, parser.go, the build).
VARIABLES
    cmdline,         \* os.Args: the flags given, in order, and the arguments after them
    taskC,           \* *taskC
    taskKeepBinary,  \* *taskKeepBinary
    fs,              \* the file system: HOME, the global directory, the binaries
    srcDir,          \* the task files ("*_task.go") of the directory given
    gakePc,          \* position of the command's main
    isNew,           \* main local
    cmdPath,         \* main local
    pkg,             \* the *taskPackage ParseDir returned
    stderr,          \* the error the command printed
    exitCode,        \* the command's exit code
    args,            \* the arguments Run passed to the task binary
    executed,        \* the binary Run executed
    written          \* the paths the command created or overwrote

\* The task runner's state.
tasking == <<tasks, match, cpuList, parallel, chatty, timeout, proc, mainPc, di, i,
             numParallel, running, ok, err, matchPat, matchRe, timer, stdout, t, fwd>>

\* The command's state.
gake == <<cmdline, taskC, taskKeepBinary, fs, srcDir, gakePc, isNew, cmdPath, pkg,
          stderr, exitCode, args, executed, written>>

vars == <<tasking, gake>>

config == <<tasks, match, cpuList, parallel, chatty, timeout>>

\* ------------------------------------------------------------ data
NIL == "nil"

Letters == <<"A", "B", "C", "D">>

\* Registry names: "TA", "TB", ...
TaskName(k) == <<"T", Letters[k]>>

Registry(n) == [k \in 1..n |-> [Name |-> TaskName(k)]]

\* Patterns the run is tried with: empty, one literal, one that does not compile.
Patterns == {<<>>, <<"A">>, <<"[">>}

Timeouts == {-1, 0, 1}

IsIncreasing(s) == \A k \in 1..(Len(s) - 1) : s[k] < s[k + 1]

CpuLists ==
    {s \in UNION {[1..n -> 1..MaxProcs] : n \in 1..MaxProcs} : IsIncreasing(s)}

Ctx == (1..MaxProcs) \X (1..MaxCtx)

\* A Context before its task is launched.
NoT == [pc |-> "none", failed |-> FALSE, skipped |-> FALSE, finished |-> FALSE,
        name |-> NIL, kind |-> "none", steps |-> 0, defers |-> 0, cleaned |-> 0,
        output |-> 0, launched |-> 0, parCalls |-> 0, released |-> 0, sends |-> 0,
        reports |-> 0]

NoFwd == [pc |-> "none", val |-> NIL]

\* regexp.Compile: a pattern with an unclosed bracket does not compile.
CompileErr(pat) == \E k \in 1..Len(pat) : pat[k] = "["

\* As MatchString, but the empty pattern matches nothing.
MatchStringNonEmpty(re, str) ==
    /\ Len(re) > 0
    /\ \E k \in 0..(Len(str) - Len(re)) : SubSeq(str, k + 1, k + Len(re)) = re

\* Regexp.MatchString for a literal pattern: unanchored substring search.
MatchString(re, str) ==
    \E k \in 0..(Len(str) - Len(re)) : SubSeq(str, k + 1, k + Len(re)) = re

\* var matchRe *regexp.Regexp holding nil: a sequence that is no pattern.
NoRegexp == <<NIL>>

\* matchString of the generated main: result, error and the cache after the call.
matchString(pat, str) ==
    IF matchRe = NoRegexp \/ matchPat # pat
    THEN IF CompileErr(pat)
         THEN [result |-> FALSE, err |-> TRUE, matchPat |-> pat, matchRe |-> NoRegexp]
         ELSE [result |-> MatchString(pat, str), err |-> FALSE,
               matchPat |-> pat, matchRe |-> pat]
    ELSE [result |-> MatchString(matchRe, str), err |-> FALSE,
          matchPat |-> matchPat, matchRe |-> matchRe]

\* As report, but the lines of passing and skipped tasks are printed whatever
\* the verbose flag.
reportVerbose(name, failed, skipped, output) ==
    IF failed THEN <<[line |-> "--- FAIL", name |-> name, log |-> output]>>
    ELSE IF skipped THEN <<[line |-> "--- SKIP", name |-> name, log |-> output]>>
         ELSE <<[line |-> "--- PASS", name |-> name, log |-> output]>>

\* The lines T.report prints for a Context with the given flags and log (the
\* number of entries of t.output): the header line, followed by the log.
report(name, failed, skipped, output) ==
    IF failed THEN <<[line |-> "--- FAIL", name |-> name, log |-> output]>>
    ELSE IF chatty
         THEN IF skipped THEN <<[line |-> "--- SKIP", name |-> name, log |-> output]>>
              ELSE <<[line |-> "--- PASS", name |-> name, log |-> output]>>
         ELSE <<>>

\* ------------------------------------------------------------ the command's flags
\* A flag name is the sequence of the pieces it is concatenated from, so that
\* "task." + f.Name and "-" + f.Name are concatenations.
Unprefixed == {<<"cpu">>, <<"parallel">>, <<"run">>, <<"short">>, <<"timeout">>, <<"v">>}

Prefixed == {<<"task.">> \o n : n \in Unprefixed}

OwnFlags == {<<"c">>, <<"x">>, <<"keep">>}

\* The flags init() and the var blocks define, in the order flag.Visit walks
\* them (sorted by name).
FlagOrder ==
    << <<"c">>, <<"cpu">>, <<"keep">>, <<"parallel">>, <<"run">>, <<"short">>,
       <<"task.", "cpu">>, <<"task.", "parallel">>, <<"task.", "run">>,
       <<"task.", "short">>, <<"task.", "timeout">>, <<"task.", "v">>,
       <<"timeout">>, <<"v">>, <<"x">> >>

FlagNames == {FlagOrder[k] : k \in DOMAIN FlagOrder}

\* The variable a flag is bound to: -cpu and -task.cpu share taskCPU, and so on.
FlagVar(name) == name[Len(name)]

BoolVars == {"c", "x", "keep", "short", "v"}

\* The texts a flag is given with on the command lines tried.
Texts(name) ==
    CASE FlagVar(name) \in BoolVars   -> {"true", "false"}
      [] FlagVar(name) = "cpu"        -> {"1", "1,2"}
      [] FlagVar(name) = "parallel"   -> {"2", "02"}
      [] FlagVar(name) = "run"        -> {"A", "B"}
      [] FlagVar(name) = "timeout"    -> {"1s", "60s"}

\* Value.Set followed by Value.String: an int is printed in decimal without
\* leading zeros, a Duration in the form of Duration.String, a string and a
\* bool as they are.
ValueString(name, text) ==
    CASE FlagVar(name) = "parallel" /\ text = "02"  -> "2"
      [] FlagVar(name) = "timeout" /\ text = "60s"  -> "1m0s"
      [] OTHER                                      -> text

\* flag.Parse: the flags set (FlagSet.actual) ...
Actual(flags) == {flags[k].name : k \in DOMAIN flags}

\* ... and the value of a flag's variable: the last text given to any flag
\* bound to it (NIL: the default).
Stored(flags, name) ==
    LET ks == {k \in DOMAIN flags : FlagVar(flags[k].name) = FlagVar(name)}
    IN  IF ks = {} THEN NIL
        ELSE LET last == CHOOSE k \in ks : \A j \in ks : j <= k
             IN  ValueString(flags[last].name, flags[last].text)

BoolFlag(flags, var) == Stored(flags, <<var>>) = "true"

\* flag.Args(): the path, if given, and what follows it.
Fargs(line) == line.extra

\* The function getTaskArgs passes to flag.Visit: what one set flag adds to args.
visit(flags, name) ==
    IF name \in OwnFlags THEN <<>>
    ELSE LET newName == IF name \in Unprefixed THEN <<"task.">> \o name ELSE name
             isBoolean == name \in Unprefixed
                            \/ name \in {<<"task.", "short">>, <<"task.", "v">>}
         IN  << <<"-">> \o newName >>
                \o (IF isBoolean THEN <<>> ELSE << <<Stored(flags, name)>> >>)

RECURSIVE Visit(_, _)
\* flag.Visit over the flags set, from position k of the walk on.
Visit(flags, k) ==
    IF k > Len(FlagOrder) THEN <<>>
    ELSE (IF FlagOrder[k] \in Actual(flags) THEN visit(flags, FlagOrder[k]) ELSE <<>>)
            \o Visit(flags, k + 1)

RECURSIVE Words(_)
\* Each argument as a one-piece word.
Words(s) == IF s = <<>> THEN <<>> ELSE << <<Head(s)>> >> \o Words(Tail(s))

\* getTaskArgs: the arguments for the task binary.
getTaskArgs(line) ==
    Visit(line.flags, 1)
        \o (IF Len(Fargs(line)) > 1
            THEN << <<"-task.args">> >> \o Words(Tail(Fargs(line)))
            ELSE <<>>)

\* ------------------------------------------------------------ the task directory
\* Function names are sequences of characters.
PREFIX_FUNC == <<"T", "a", "s", "k">>

IsUpper(r) == r \in {"A", "B"}

IsDigit(r) == r \in {"1"}

\* Names that are task names (TaskA, Task1) and names that are not (Taska,
\* Task, run).
FuncNames ==
    {PREFIX_FUNC \o <<"A">>, PREFIX_FUNC \o <<"1">>, PREFIX_FUNC \o <<"a">>,
     PREFIX_FUNC, <<"r", "u", "n">>}

\* The name check of ParseDir: prefix "Task", something after it, and that
\* starts with an upper case letter or a digit.
IsTaskName(funcName) ==
    /\ Len(funcName) > Len(PREFIX_FUNC)
    /\ SubSeq(funcName, 1, Len(PREFIX_FUNC)) = PREFIX_FUNC
    /\ (IsUpper(funcName[Len(PREFIX_FUNC) + 1]) \/ IsDigit(funcName[Len(PREFIX_FUNC) + 1]))

\* Parameter types: *tasking.T, tasking.T, *T, *testing.T, *tasking.B.
StarTaskingT == [star |-> TRUE, pkg |-> "tasking", sel |-> "T"]

ParamTypes ==
    {StarTaskingT,
     [star |-> FALSE, pkg |-> "tasking", sel |-> "T"],
     [star |-> TRUE, pkg |-> NIL, sel |-> "T"],
     [star |-> TRUE, pkg |-> "testing", sel |-> "T"],
     [star |-> TRUE, pkg |-> "tasking", sel |-> "B"]}

\* A field of a parameter list: the number of names it declares (0 for an
\* unnamed parameter) and their type.
Field(n, type) == [names |-> n, type |-> type]

\* Signatures (ast.FuncType): whether there are results, and the parameter fields.
Signatures ==
    {[results |-> FALSE, params |-> <<Field(1, ty)>>] : ty \in ParamTypes}
    \cup {[results |-> FALSE, params |-> <<Field(0, StarTaskingT)>>],
          [results |-> FALSE, params |-> <<Field(2, StarTaskingT)>>],
          [results |-> TRUE, params |-> <<Field(1, StarTaskingT)>>],
          [results |-> FALSE, params |-> <<>>],
          [results |-> FALSE, params |-> <<Field(1, StarTaskingT), Field(1, StarTaskingT)>>]}

\* The signature check of ParseDir: no results, one field in the parameter
\* list, and its type a pointer to the selector tasking.T.
SignOk(sig) ==
    /\ ~sig.results /\ Len(sig.params) = 1
    /\ sig.params[1].type.star
    /\ sig.params[1].type.pkg # NIL
    /\ sig.params[1].type.pkg = "tasking" /\ sig.params[1].type.sel = "T"

\* Comment groups: the words of Text() split at " ", and whether the group
\* lies after the package clause.
Comment(words, after) == [words |-> words, after |-> after]

BuildGake == <<"+build", "gake\n">>

CommentLists ==
    {<<>>,
     <<Comment(BuildGake, FALSE)>>,
     <<Comment(BuildGake, TRUE)>>,
     <<Comment(<<"+build", "linux\n">>, FALSE)>>,
     <<Comment(<<"+build", "gake", "linux\n">>, FALSE)>>,
     <<Comment(<<"+buildmode\n">>, FALSE), Comment(BuildGake, FALSE)>>,
     <<Comment(<<"Tasks.\n">>, FALSE), Comment(BuildGake, TRUE)>>,
     <<Comment(BuildGake, FALSE), Comment(BuildGake, TRUE)>>}

\* strings.HasPrefix(comment, "+build") on the first word of the comment.
HasPlusBuildPrefix(words) == words[1] \in {"+build", "+build\n", "+buildmode\n"}

RECURSIVE BuildCons(_, _)
\* The build constraint check of ParseDir over file.Comments from group k on:
\* the first group "+build gake" decides.
BuildCons(comments, k) ==
    IF k > Len(comments) THEN "BuildConsError"
    ELSE IF /\ HasPlusBuildPrefix(comments[k].words)
            /\ comments[k].words[1] = "+build"
            /\ comments[k].words[2] = "gake\n"
         THEN IF comments[k].after THEN "BuildConsPosError" ELSE "ok"
         ELSE BuildCons(comments, k + 1)

RECURSIVE TaskFuncs(_, _)
\* The loop over file.Decls from declaration k on: the task functions found,
\* or an error at the first task function with a bad signature.
TaskFuncs(funcs, k) ==
    IF k > Len(funcs) THEN [err |-> FALSE, funcs |-> <<>>]
    ELSE IF ~IsTaskName(funcs[k].name) THEN TaskFuncs(funcs, k + 1)
    ELSE IF ~SignOk(funcs[k].sig) THEN [err |-> TRUE, funcs |-> <<>>]
    ELSE LET rest == TaskFuncs(funcs, k + 1)
         IN  [err |-> rest.err, funcs |-> <<funcs[k].name>> \o rest.funcs]

\* One round of the loop over the files of the package: the error ParseDir
\* returns at this file, "skip" for a file without task functions, or "ok".
CheckFile(f) ==
    LET taskFuncs == TaskFuncs(f.funcs, 1)
    IN  IF taskFuncs.err THEN "FuncSignError"
        ELSE IF Len(taskFuncs.funcs) = 0 THEN "skip"
        ELSE IF ~f.imports THEN "ImportPathError"
        ELSE BuildCons(f.comments, 1)

NoPkg == [Name |-> NIL, Files |-> <<>>]

RECURSIVE FilesLoop(_, _, _, _)
\* The loop over pkgs[pkgName].Files in the order the map is ranged over,
\* from position k on, with the goFiles collected so far.
FilesLoop(dir, order, k, goFiles) ==
    IF k > Len(order)
    THEN IF Len(goFiles) = 0
         THEN [err |-> "ErrNoTask", file |-> NIL, pkg |-> NoPkg]
         ELSE [err |-> NIL, file |-> NIL,
               pkg |-> [Name |-> dir[order[1]].pkg, Files |-> goFiles]]
    ELSE LET f == dir[order[k]]
             res == CheckFile(f)
         IN  IF res = "skip" THEN FilesLoop(dir, order, k + 1, goFiles)
             ELSE IF res = "ok"
                  THEN FilesLoop(dir, order, k + 1,
                                 Append(goFiles, [Name |-> f.name,
                                                  TaskFuncs |-> TaskFuncs(f.funcs, 1).funcs]))
                  ELSE [err |-> res, file |-> f.name, pkg |-> NoPkg]

\* The orders a map of n files can be ranged over.
Orders(n) == {o \in [1..n -> 1..n] : \A j, k \in 1..n : o[j] = o[k] => j = k}

\* ParseDir for the task files dir, ranged over in the given order.
ParseDir(dir, order) ==
    IF \E k \in DOMAIN dir : dir[k].syntaxErr
    THEN [err |-> "syntax error", file |-> NIL, pkg |-> NoPkg]
    ELSE IF Len(dir) = 0
         THEN [err |-> "ErrNoTaskfile", file |-> NIL, pkg |-> NoPkg]
         ELSE IF Cardinality({dir[k].pkg : k \in DOMAIN dir}) > 1
              THEN [err |-> "MultiPkgError", file |-> NIL, pkg |-> NoPkg]
              ELSE FilesLoop(dir, order, 1, <<>>)

\* The task directories tried.
MaxFuncs == 1       \* function declarations per task file

FuncLists ==
    UNION {[1..n -> [name : FuncNames, sig : Signatures]] : n \in 0..MaxFuncs}

File(name, pkgName, syntaxErr, funcs, imports, comments) ==
    [name |-> name, pkg |-> pkgName, syntaxErr |-> syntaxErr, funcs |-> funcs,
     imports |-> imports, comments |-> comments]

\* A file as ParseDir wants it, with one task function.
GoodFile(name, pkgName) ==
    File(name, pkgName, FALSE,
         <<[name |-> PREFIX_FUNC \o <<"A">>,
            sig |-> [results |-> FALSE, params |-> <<Field(1, StarTaskingT)>>]]>>,
         TRUE, <<Comment(BuildGake, FALSE)>>)

\* Directories of one task file of package main, of every kind.
OneFile ==
    {<<File("a_task.go", "main", FALSE, funcs, imports, comments)>> :
        funcs \in FuncLists, imports \in BOOLEAN, comments \in CommentLists}

\* Second files: a good one, one of another package, one with a syntax
\* error, one without task functions, one without the import.
SecondFiles ==
    {GoodFile("b_task.go", "main"),
     GoodFile("b_task.go", "main2"),
     [GoodFile("b_task.go", "main") EXCEPT !.syntaxErr = TRUE],
     [GoodFile("b_task.go", "main") EXCEPT !.funcs = <<>>],
     [GoodFile("b_task.go", "main") EXCEPT !.imports = FALSE]}

TwoFiles ==
    {<<f, g>> : f \in {[h EXCEPT !.name = "a_task.go"] : h \in SecondFiles},
               g \in SecondFiles}

Dirs == {<<>>} \cup OneFile \cup TwoFiles

\* ------------------------------------------------------------ Init
NoError == [err |-> NIL, file |-> NIL]

\* The command is not part of a run of the task binary.
GakeIdle ==
    /\ cmdline = [flags |-> <<>>, extra |-> <<>>]
    /\ taskC = FALSE
    /\ taskKeepBinary = FALSE
    /\ fs = [home |-> TRUE, homeDir |-> FALSE, binGlobal |-> FALSE, binLocal |-> FALSE, newer |-> FALSE]
    /\ srcDir = <<>>
    /\ gakePc = "none"
    /\ isNew = FALSE
    /\ cmdPath = NIL
    /\ pkg = NoPkg
    /\ stderr = NoError
    /\ exitCode = NIL
    /\ args = <<>>
    /\ executed = NIL
    /\ written = {}

Init ==
    /\ tasks \in {Registry(n) : n \in 0..MaxCtx}
    /\ match \in Patterns
    /\ cpuList \in CpuLists
    /\ Len(tasks) * Len(cpuList) <= MaxCtx
    /\ parallel \in 0..MaxPar
    /\ chatty \in BOOLEAN
    /\ timeout \in Timeouts
    /\ proc = "running"
    /\ mainPc = "Main"
    /\ di = 1
    /\ i = 1
    /\ numParallel = 0
    /\ running = 0
    /\ ok = TRUE
    /\ err = FALSE
    /\ matchPat = <<>>
    /\ matchRe = NoRegexp
    /\ timer = FALSE
    /\ stdout = <<>>
    /\ t = [c \in Ctx |-> NoT]
    /\ fwd = [c \in Ctx |-> NoFwd]
    /\ GakeIdle

\* The task binary is not part of a run of the command.
TaskingIdle ==
    /\ tasks = <<>> /\ match = <<>> /\ cpuList = <<1>>
    /\ parallel = 0 /\ chatty = FALSE /\ timeout = 0
    /\ proc = "none" /\ mainPc = "none"
    /\ di = 1 /\ i = 1 /\ numParallel = 0 /\ running = 0
    /\ ok = TRUE /\ err = FALSE
    /\ matchPat = <<>> /\ matchRe = NoRegexp
    /\ timer = FALSE
    /\ stdout = <<>>
    /\ t = [c \in Ctx |-> NoT]
    /\ fwd = [c \in Ctx |-> NoFwd]

MaxFlags == 2       \* flags on a command line

\* The command lines of at most MaxFlags flags out of names, each flag given
\* once, followed by the arguments in extras.
CmdLines(names, extras) ==
    [flags : {s \in UNION {[1..n -> UNION {[name : {nm}, text : Texts(nm)] : nm \in names}]
                              : n \in 0..MaxFlags} :
                 \A j, k \in DOMAIN s : s[j].name = s[k].name => j = k},
     extra : extras]

\* The states of the file system at the start: whether HOME can be found,
\* whether the global directory of this task directory and the binary in it
\* exist, whether the binary in the working directory exists, and whether a
\* task file was modified after the binary at cmdPath.
FsStates ==
    {f \in [home : BOOLEAN, homeDir : BOOLEAN, binGlobal : BOOLEAN, binLocal : BOOLEAN,
             newer : BOOLEAN] : f.binGlobal => f.homeDir}

\* Nothing built or kept so far.
FreshFs ==
    [home |-> TRUE, homeDir |-> FALSE, binGlobal |-> FALSE, binLocal |-> FALSE,
     newer |-> FALSE]

\* A kept binary that is up to date.
KeptFs ==
    [home |-> TRUE, homeDir |-> TRUE, binGlobal |-> TRUE, binLocal |-> FALSE,
     newer |-> FALSE]

\* The start of the command: flag.Parse has run.
GakeStart(line, files, f) ==
    /\ cmdline = line
    /\ taskC = BoolFlag(line.flags, "c")
    /\ taskKeepBinary = BoolFlag(line.flags, "keep")
    /\ fs = f
    /\ srcDir = files
    /\ gakePc = "main"
    /\ isNew = FALSE
    /\ cmdPath = NIL
    /\ pkg = NoPkg
    /\ stderr = NoError
    /\ exitCode = NIL
    /\ args = <<>>
    /\ executed = NIL
    /\ written = {}

\* The command on every kind of task directory with nothing built before,
\* and on every state of the file system with a few directories.
CmdInit ==
    /\ TaskingIdle
    /\ \E line \in CmdLines({<<"c">>, <<"keep">>}, {<<".">>}), files \in Dirs, f \in FsStates :
          /\ (f = FreshFs \/ files \in {<<>>} \cup TwoFiles)
          /\ GakeStart(line, files, f)

\* The command on every command line, with a kept binary.
ArgsInit ==
    /\ TaskingIdle
    /\ \E line \in CmdLines(FlagNames, {<<>>, <<".">>, <<".", "e">>}) :
          GakeStart(line, <<GoodFile("a_task.go", "main")>>, KeptFs)

\* ------------------------------------------------------------ gake: main
GLOBAL_DIR == "HOME/.task/<crc>"

GLOBAL_BIN == "HOME/.task/<crc>/gake.task"

LOCAL_BIN == "<wd>/<dir>.task"

TEMP_FILE == "<tmp>/gake-<random>"

\* os.Exit(1) after a message on the standard error.
Fatal(message, file) ==
    /\ stderr' = [err |-> message, file |-> file]
    /\ exitCode' = "1"
    /\ gakePc' = "exit"

\* As mainPaths, but the global directory is made whether or not -keep is set.
mainPathsMkdirAlways ==
    /\ gakePc = "main"
    /\ IF ~fs.home
       THEN /\ Fatal("HOME is not set", NIL)
            /\ UNCHANGED <<cmdPath, isNew, fs, written>>
       ELSE \E osErr \in BOOLEAN :
              IF osErr
              THEN /\ Fatal("os error", NIL)
                   /\ UNCHANGED <<cmdPath, isNew, fs, written>>
              ELSE /\ gakePc' = "hasNewCode"
                   /\ UNCHANGED <<stderr, exitCode>>
                   /\ IF ~taskC
                      THEN /\ cmdPath' = GLOBAL_BIN
                           /\ isNew' = ~fs.homeDir
                           /\ IF ~fs.homeDir
                              THEN /\ fs' = [fs EXCEPT !.homeDir = TRUE]
                                   /\ written' = written \cup {GLOBAL_DIR}
                              ELSE UNCHANGED <<fs, written>>
                      ELSE /\ cmdPath' = LOCAL_BIN
                           /\ UNCHANGED <<isNew, fs, written>>
    /\ UNCHANGED <<tasking, cmdline, taskC, taskKeepBinary, srcDir, pkg, args, executed>>

\* main up to the choice between building and running: HOME, dir, cmdPath,
\* isNew and, with -keep, the global directory.
mainPaths ==
    /\ gakePc = "main"
    /\ IF ~fs.home
       THEN /\ Fatal("HOME is not set", NIL)
            /\ UNCHANGED <<cmdPath, isNew, fs, written>>
       ELSE \E osErr \in BOOLEAN :
              IF osErr
              THEN /\ Fatal("os error", NIL)
                   /\ UNCHANGED <<cmdPath, isNew, fs, written>>
              ELSE /\ gakePc' = "hasNewCode"
                   /\ UNCHANGED <<stderr, exitCode>>
                   /\ IF ~taskC
                      THEN /\ cmdPath' = GLOBAL_BIN
                           /\ isNew' = ~fs.homeDir
                           /\ IF ~fs.homeDir /\ taskKeepBinary
                              THEN /\ fs' = [fs EXCEPT !.homeDir = TRUE]
                                   /\ written' = written \cup {GLOBAL_DIR}
                              ELSE UNCHANGED <<fs, written>>
                      ELSE /\ cmdPath' = LOCAL_BIN
                           /\ UNCHANGED <<isNew, fs, written>>
    /\ UNCHANGED <<tasking, cmdline, taskC, taskKeepBinary, srcDir, pkg, args, executed>>

\* The binary at path exists.
Exists(path) == IF path = GLOBAL_BIN THEN fs.binGlobal ELSE fs.binLocal

\* hasNewCode(dir, cmdPath): its result and *taskKeepBinary after the call.
\* statErr: os.Stat of a task file fails.
hasNewCode(path, statErr) ==
    IF ~Exists(path)
    THEN [result |-> taskC, keep |-> taskKeepBinary]
    ELSE IF Len(srcDir) = 0 \/ statErr
         THEN [result |-> FALSE, keep |-> taskKeepBinary]
         ELSE IF fs.newer
              THEN [result |-> TRUE, keep |-> TRUE]
              ELSE [result |-> FALSE, keep |-> taskKeepBinary]

\* "if isNew || hasNewCode(dir, cmdPath)": on to ParseDir, or to Run.
mainChoice ==
    /\ gakePc = "hasNewCode"
    /\ IF isNew
       THEN /\ gakePc' = "ParseDir"
            /\ UNCHANGED taskKeepBinary
       ELSE \E statErr \in BOOLEAN :
              LET h == hasNewCode(cmdPath, statErr)
              IN  /\ taskKeepBinary' = h.keep
                  /\ gakePc' = IF h.result THEN "ParseDir" ELSE "Run"
    /\ UNCHANGED <<tasking, cmdline, taskC, fs, srcDir, isNew, cmdPath, pkg, stderr,
                   exitCode, args, executed, written>>

\* pkg, err := ParseDir(dir), and the exit on an error.
mainParseDir ==
    /\ gakePc = "ParseDir"
    /\ \E order \in Orders(Len(srcDir)) :
          LET r == ParseDir(srcDir, order)
          IN  IF r.err # NIL
              THEN /\ Fatal(r.err, r.file)
                   /\ UNCHANGED pkg
              ELSE /\ pkg' = r.pkg
                   /\ gakePc' = "BuildAndRun"
                   /\ UNCHANGED <<stderr, exitCode>>
    /\ UNCHANGED <<tasking, cmdline, taskC, taskKeepBinary, fs, srcDir, isNew, cmdPath,
                   args, executed, written>>

\* BuildAndRun(pkg, cmdPath) and the exit on its error.  os.CreateTemp creates
\* a regular file and workDir is its name, so the first round of the copy
\* loop (pkg.Files is not empty) returns an error: from os.ReadFile, or from
\* os.WriteFile, whose path lies under a regular file.  The deferred
\* os.RemoveAll removes the file again.
BuildAndRun ==
    /\ gakePc = "BuildAndRun"
    /\ \E e \in {"CreateTemp", "ReadFile", "WriteFile: not a directory"} :
          /\ Fatal(e, NIL)
          /\ written' = IF e = "CreateTemp" THEN written ELSE written \cup {TEMP_FILE}
    /\ UNCHANGED <<tasking, cmdline, taskC, taskKeepBinary, fs, srcDir, isNew, cmdPath,
                   pkg, args, executed>>

\* As Run, but without the test of *taskC.
RunAlways ==
    /\ gakePc = "Run"
    /\ args' = getTaskArgs(cmdline)
    /\ executed' = IF Exists(cmdPath) THEN cmdPath ELSE "not found"
    /\ exitCode' = "0"
    /\ gakePc' = "exit"
    /\ UNCHANGED <<tasking, cmdline, taskC, taskKeepBinary, fs, srcDir, isNew, cmdPath,
                   pkg, stderr, written>>

\* Run(cmdPath) from main, and the end of main: nothing with -c, else the
\* binary is executed with getTaskArgs(); the error of cmd.Run is dropped.
Run ==
    /\ gakePc = "Run"
    /\ IF taskC
       THEN UNCHANGED <<args, executed>>
       ELSE /\ args' = getTaskArgs(cmdline)
            /\ executed' = IF Exists(cmdPath) THEN cmdPath ELSE "not found"
    /\ exitCode' = "0"
    /\ gakePc' = "exit"
    /\ UNCHANGED <<tasking, cmdline, taskC, taskKeepBinary, fs, srcDir, isNew, cmdPath,
                   pkg, stderr, written>>

CmdNext ==
    \/ mainPaths
    \/ mainChoice
    \/ mainParseDir
    \/ BuildAndRun
    \/ Run

\* The command gake on a task directory.
CmdSpec == CmdInit /\ [][CmdNext]_vars

\* The command gake on a command line.
ArgsSpec == ArgsInit /\ [][CmdNext]_vars

\* ------------------------------------------------------------ Main
\* As startAlarm, but the timer is armed whatever the timeout.
startAlarmAlways ==
    /\ proc = "running" /\ mainPc = "Main"
    /\ timer' = TRUE
    /\ mainPc' = "RunTasks"
    /\ UNCHANGED <<gake, config, proc, di, i, numParallel, running, ok, err,
                   matchPat, matchRe, stdout, t, fwd>>

\* Main up to the call of RunTasks: startAlarm.
startAlarm ==
    /\ proc = "running" /\ mainPc = "Main"
    /\ timer' = (timeout > 0)
    /\ mainPc' = "RunTasks"
    /\ UNCHANGED <<gake, config, proc, di, i, numParallel, running, ok, err,
                   matchPat, matchRe, stdout, t, fwd>>

\* The timer's function runs: an unrecovered panic in its own goroutine.
AlarmFires ==
    /\ proc = "running" /\ timer
    /\ proc' = "panic: timed out"
    /\ UNCHANGED <<gake, config, mainPc, di, i, numParallel, running, ok, err,
                   matchPat, matchRe, timer, stdout, t, fwd>>

\* As stopAlarm, but the timer is left running.
stopAlarmForgets ==
    /\ proc = "running" /\ mainPc = "stopAlarm"
    /\ mainPc' = "final"
    /\ UNCHANGED <<gake, config, proc, di, i, numParallel, running, ok, err,
                   matchPat, matchRe, timer, stdout, t, fwd>>

\* Main after RunTasks returned: stopAlarm.
stopAlarm ==
    /\ proc = "running" /\ mainPc = "stopAlarm"
    /\ timer' = IF timeout > 0 THEN FALSE ELSE timer
    /\ mainPc' = "final"
    /\ UNCHANGED <<gake, config, proc, di, i, numParallel, running, ok, err,
                   matchPat, matchRe, stdout, t, fwd>>

\* As MainExit, but the process exits with code 0 whatever the result.
MainExitAlwaysZero ==
    /\ proc = "running" /\ mainPc = "final"
    /\ stdout' = Append(stdout, [line |-> IF ok THEN "PASS" ELSE "FAIL", name |-> NIL])
    /\ proc' = "exit0"
    /\ mainPc' = "exit"
    /\ UNCHANGED <<gake, config, di, i, numParallel, running, ok, err,
                   matchPat, matchRe, timer, t, fwd>>

\* Main's final line and the exit of the process.
MainExit ==
    /\ proc = "running" /\ mainPc = "final"
    /\ stdout' = Append(stdout, [line |-> IF ok THEN "PASS" ELSE "FAIL", name |-> NIL])
    /\ proc' = IF ok THEN "exit0" ELSE "exit1"
    /\ mainPc' = "exit"
    /\ UNCHANGED <<gake, config, di, i, numParallel, running, ok, err,
                   matchPat, matchRe, timer, t, fwd>>

\* ------------------------------------------------------------ RunTasks
Cur == <<di, i>>

\* The Context of a goroutine that has sent t on t.signal and ended (the
\* counters of its body are of no use any more).
Exited(x) == [x EXCEPT !.pc = "exited", !.sends = @ + 1, !.steps = 0, !.cleaned = 0]

\* As taskName, but the suffix is left out for the first degree of the list
\* instead of for procs = 1.
taskNameByPosition(name, procs) == IF procs # cpuList[1] THEN name \o <<"-", procs>> ELSE name

\* The Context's name: the registry name, suffixed -<procs> unless procs is 1.
taskName(name, procs) == IF procs # 1 THEN name \o <<"-", procs>> ELSE name

\* RunTasks entry: ok = true, and the early return for an empty registry.
RunTasks ==
    /\ proc = "running" /\ mainPc = "RunTasks"
    /\ ok' = TRUE
    /\ mainPc' = IF Len(tasks) = 0 THEN "stopAlarm" ELSE "degree"
    /\ di' = 1
    /\ UNCHANGED <<gake, config, proc, i, numParallel, running, err,
                   matchPat, matchRe, timer, stdout, t, fwd>>

\* Head of "for _, procs := range cpuList": a fresh collector and gate, or return.
NextDegree ==
    /\ proc = "running" /\ mainPc = "degree"
    /\ IF di <= Len(cpuList)
       THEN /\ numParallel' = 0
            /\ i' = 1
            /\ mainPc' = "walk"
       ELSE /\ mainPc' = "stopAlarm"
            /\ UNCHANGED <<numParallel, i>>
    /\ UNCHANGED <<gake, config, proc, di, running, ok, err,
                   matchPat, matchRe, timer, stdout, t, fwd>>

\* The registry walk is over: running := 0 and on to the drain loop.
WalkEnd ==
    /\ proc = "running" /\ mainPc = "walk" /\ i > Len(tasks)
    /\ running' = 0
    /\ mainPc' = "drain"
    /\ UNCHANGED <<gake, config, proc, di, i, numParallel, ok, err,
                   matchPat, matchRe, timer, stdout, t, fwd>>

\* As WalkInvalid, but after the message the walk continues with the next entry.
WalkInvalidContinue ==
    /\ proc = "running" /\ mainPc = "walk" /\ i <= Len(tasks)
    /\ LET m == matchString(match, tasks[i].Name) IN
         /\ m.err
         /\ matchPat' = m.matchPat /\ matchRe' = m.matchRe /\ err' = m.err
    /\ i' = i + 1
    /\ UNCHANGED <<gake, config, proc, mainPc, di, numParallel, running, ok, timer,
                   stdout, t, fwd>>

\* matchString returned an error: the message and os.Exit(1).
WalkInvalid ==
    /\ proc = "running" /\ mainPc = "walk" /\ i <= Len(tasks)
    /\ LET m == matchString(match, tasks[i].Name) IN
         /\ m.err
         /\ matchPat' = m.matchPat /\ matchRe' = m.matchRe /\ err' = m.err
    /\ proc' = "exit1"
    /\ mainPc' = "os.Exit"
    /\ UNCHANGED <<gake, config, di, i, numParallel, running, ok, timer, stdout, t, fwd>>

\* The entry does not match: continue.
WalkContinue ==
    /\ proc = "running" /\ mainPc = "walk" /\ i <= Len(tasks)
    /\ LET m == matchString(match, tasks[i].Name) IN
         /\ ~m.err /\ ~m.result
         /\ matchPat' = m.matchPat /\ matchRe' = m.matchRe /\ err' = m.err
    /\ i' = i + 1
    /\ UNCHANGED <<gake, config, proc, mainPc, di, numParallel, running, ok, timer,
                   stdout, t, fwd>>

\* As WalkLaunch, but the walk goes on to the next entry without waiting on
\* t.signal.
WalkLaunchNoWait ==
    /\ proc = "running" /\ mainPc = "walk" /\ i <= Len(tasks)
    /\ LET m == matchString(match, tasks[i].Name)
           n == taskName(tasks[i].Name, cpuList[di]) IN
         /\ ~m.err /\ m.result
         /\ matchPat' = m.matchPat /\ matchRe' = m.matchRe /\ err' = m.err
         /\ t' = [t EXCEPT ![Cur] = [NoT EXCEPT !.pc = "body", !.name = n,
                                                !.launched = t[Cur].launched + 1]]
         /\ stdout' = IF chatty THEN Append(stdout, [line |-> "=== RUN", name |-> n])
                      ELSE stdout
    /\ i' = i + 1
    /\ mainPc' = "walk"
    /\ UNCHANGED <<gake, config, proc, di, numParallel, running, ok, timer, fwd>>

\* The entry matches: a fresh T, "=== RUN" when chatty, go tRunner, then the
\* main goroutine waits on t.signal.
WalkLaunch ==
    /\ proc = "running" /\ mainPc = "walk" /\ i <= Len(tasks)
    /\ LET m == matchString(match, tasks[i].Name)
           n == taskName(tasks[i].Name, cpuList[di]) IN
         /\ ~m.err /\ m.result
         /\ matchPat' = m.matchPat /\ matchRe' = m.matchRe /\ err' = m.err
         /\ t' = [t EXCEPT ![Cur] = [NoT EXCEPT !.pc = "body", !.name = n,
                                                !.launched = t[Cur].launched + 1]]
         /\ stdout' = IF chatty THEN Append(stdout, [line |-> "=== RUN", name |-> n])
                      ELSE stdout
    /\ mainPc' = "recv"
    /\ UNCHANGED <<gake, config, proc, di, i, numParallel, running, ok, timer, fwd>>

\* As RecvParallel, but the task does not wait on startParallel: its body goes
\* on as soon as the marker is taken.
RecvParallelNoGate ==
    /\ proc = "running" /\ mainPc = "recv" /\ t[Cur].pc = "sendNil"
    /\ t' = [t EXCEPT ![Cur].pc = "body"]
    /\ fwd' = [fwd EXCEPT ![Cur] = [pc |-> "recv", val |-> NIL]]
    /\ numParallel' = numParallel + 1
    /\ i' = i + 1
    /\ mainPc' = "walk"
    /\ UNCHANGED <<gake, config, proc, di, running, ok, err, matchPat, matchRe, timer, stdout>>

\* As RecvParallel, but the marker is taken for the task's completion as
\* well: the task is reported while it waits at the gate.
RecvParallelReports ==
    /\ proc = "running" /\ mainPc = "recv" /\ t[Cur].pc = "sendNil"
    /\ t' = [t EXCEPT ![Cur].pc = "gate", ![Cur].reports = @ + 1]
    /\ stdout' = stdout \o report(t[Cur].name, t[Cur].failed, t[Cur].skipped, t[Cur].output)
    /\ fwd' = [fwd EXCEPT ![Cur] = [pc |-> "recv", val |-> NIL]]
    /\ numParallel' = numParallel + 1
    /\ i' = i + 1
    /\ mainPc' = "walk"
    /\ UNCHANGED <<gake, config, proc, di, running, ok, err, matchPat, matchRe, timer>>

\* out := (<-t.signal).(*T) received the nil marker of Parallel: start the
\* forwarder, numParallel++, continue.
RecvParallel ==
    /\ proc = "running" /\ mainPc = "recv" /\ t[Cur].pc = "sendNil"
    /\ t' = [t EXCEPT ![Cur].pc = "gate"]
    /\ fwd' = [fwd EXCEPT ![Cur] = [pc |-> "recv", val |-> NIL]]
    /\ numParallel' = numParallel + 1
    /\ i' = i + 1
    /\ mainPc' = "walk"
    /\ UNCHANGED <<gake, config, proc, di, running, ok, err, matchPat, matchRe, timer, stdout>>

\* As RecvDone, but the report of a serial task is put off: it is folded into
\* ok and the walk goes on without t.report().
RecvDoneNoReport ==
    /\ proc = "running" /\ mainPc = "recv" /\ t[Cur].pc = "sendT"
    /\ t' = [t EXCEPT ![Cur] = Exited(t[Cur])]
    /\ ok' = (ok /\ ~t[Cur].failed)
    /\ i' = i + 1
    /\ mainPc' = "walk"
    /\ UNCHANGED <<gake, config, proc, di, numParallel, running, err, matchPat, matchRe,
                   timer, stdout, fwd>>

\* As RecvDone, but the walk stops at the first failed task.
RecvDoneHalt ==
    /\ proc = "running" /\ mainPc = "recv" /\ t[Cur].pc = "sendT"
    /\ t' = [t EXCEPT ![Cur] = [Exited(t[Cur]) EXCEPT !.reports = @ + 1]]
    /\ stdout' = stdout \o report(t[Cur].name, t[Cur].failed, t[Cur].skipped, t[Cur].output)
    /\ ok' = (ok /\ ~t[Cur].failed)
    /\ i' = IF t[Cur].failed THEN Len(tasks) + 1 ELSE i + 1
    /\ mainPc' = "walk"
    /\ UNCHANGED <<gake, config, proc, di, numParallel, running, err, matchPat, matchRe,
                   timer, fwd>>

\* As RecvDone, but a skipped task counts against ok like a failed one.
RecvDoneSkipFails ==
    /\ proc = "running" /\ mainPc = "recv" /\ t[Cur].pc = "sendT"
    /\ t' = [t EXCEPT ![Cur] = [Exited(t[Cur]) EXCEPT !.reports = @ + 1]]
    /\ stdout' = stdout \o report(t[Cur].name, t[Cur].failed, t[Cur].skipped, t[Cur].output)
    /\ ok' = (ok /\ ~t[Cur].failed /\ ~t[Cur].skipped)
    /\ i' = i + 1
    /\ mainPc' = "walk"
    /\ UNCHANGED <<gake, config, proc, di, numParallel, running, err, matchPat, matchRe,
                   timer, fwd>>

\* As RecvDone, but ok is overwritten by the task's status instead of folded.
RecvDoneOverwrite ==
    /\ proc = "running" /\ mainPc = "recv" /\ t[Cur].pc = "sendT"
    /\ t' = [t EXCEPT ![Cur] = [Exited(t[Cur]) EXCEPT !.reports = @ + 1]]
    /\ stdout' = stdout \o report(t[Cur].name, t[Cur].failed, t[Cur].skipped, t[Cur].output)
    /\ ok' = ~t[Cur].failed
    /\ i' = i + 1
    /\ mainPc' = "walk"
    /\ UNCHANGED <<gake, config, proc, di, numParallel, running, err, matchPat, matchRe,
                   timer, fwd>>

\* out := (<-t.signal).(*T) received t: report it and fold it into ok.
RecvDone ==
    /\ proc = "running" /\ mainPc = "recv" /\ t[Cur].pc = "sendT"
    /\ t' = [t EXCEPT ![Cur] = [Exited(t[Cur]) EXCEPT !.reports = @ + 1]]
    /\ stdout' = stdout \o report(t[Cur].name, t[Cur].failed, t[Cur].skipped, t[Cur].output)
    /\ ok' = (ok /\ ~t[Cur].failed)
    /\ i' = i + 1
    /\ mainPc' = "walk"
    /\ UNCHANGED <<gake, config, proc, di, numParallel, running, err, matchPat, matchRe,
                   timer, fwd>>

\* As DrainLoop, but a waiting task is released whatever the number running.
DrainLoopNoLimit ==
    /\ proc = "running" /\ mainPc = "drain"
    /\ IF numParallel + running > 0
       THEN /\ mainPc' = IF numParallel > 0 THEN "release" ELSE "collect"
            /\ di' = di
       ELSE /\ mainPc' = "degree"
            /\ di' = di + 1
    /\ UNCHANGED <<gake, config, proc, i, numParallel, running, ok, err,
                   matchPat, matchRe, timer, stdout, t, fwd>>

\* As DrainLoop, but the loop ends as soon as no task is waiting at the gate.
DrainLoopEarlyExit ==
    /\ proc = "running" /\ mainPc = "drain"
    /\ IF numParallel > 0
       THEN /\ mainPc' = IF running < parallel THEN "release" ELSE "collect"
            /\ di' = di
       ELSE /\ mainPc' = "degree"
            /\ di' = di + 1
    /\ UNCHANGED <<gake, config, proc, i, numParallel, running, ok, err,
                   matchPat, matchRe, timer, stdout, t, fwd>>

\* Head of "for numParallel+running > 0".
\* As DrainLoop, but a release is tried without the test numParallel > 0.
DrainLoopNoWaiterTest ==
    /\ proc = "running" /\ mainPc = "drain"
    /\ IF numParallel + running > 0
       THEN /\ mainPc' = IF running < parallel THEN "release" ELSE "collect"
            /\ di' = di
       ELSE /\ mainPc' = "degree"
            /\ di' = di + 1
    /\ UNCHANGED <<gake, config, proc, i, numParallel, running, ok, err,
                   matchPat, matchRe, timer, stdout, t, fwd>>

DrainLoop ==
    /\ proc = "running" /\ mainPc = "drain"
    /\ IF numParallel + running > 0
       THEN /\ mainPc' = IF running < parallel /\ numParallel > 0
                         THEN "release" ELSE "collect"
            /\ di' = di
       ELSE /\ mainPc' = "degree"
            /\ di' = di + 1
    /\ UNCHANGED <<gake, config, proc, i, numParallel, running, ok, err,
                   matchPat, matchRe, timer, stdout, t, fwd>>

\* As Release, but numParallel is not decremented.
ReleaseNoDecrement ==
    /\ proc = "running" /\ mainPc = "release"
    /\ \E c \in Ctx :
         /\ c[1] = di /\ t[c].pc = "gate"
         /\ t' = [t EXCEPT ![c].pc = "body", ![c].released = @ + 1]
    /\ running' = running + 1
    /\ mainPc' = "drain"
    /\ UNCHANGED <<gake, config, proc, di, i, numParallel, ok, err, matchPat, matchRe,
                   timer, stdout, fwd>>

\* As Release, but running is not incremented.
ReleaseNotCounted ==
    /\ proc = "running" /\ mainPc = "release"
    /\ \E c \in Ctx :
         /\ c[1] = di /\ t[c].pc = "gate"
         /\ t' = [t EXCEPT ![c].pc = "body", ![c].released = @ + 1]
    /\ numParallel' = numParallel - 1
    /\ mainPc' = "drain"
    /\ UNCHANGED <<gake, config, proc, di, i, running, ok, err, matchPat, matchRe, timer,
                   stdout, fwd>>

\* startParallel <- true, received by one task of this degree waiting in Parallel,
\* which resets its start time and goes on with its body.
Release ==
    /\ proc = "running" /\ mainPc = "release"
    /\ \E c \in Ctx :
         /\ c[1] = di /\ t[c].pc = "gate"
         /\ t' = [t EXCEPT ![c].pc = "body", ![c].released = @ + 1]
    /\ running' = running + 1
    /\ numParallel' = numParallel - 1
    /\ mainPc' = "drain"
    /\ UNCHANGED <<gake, config, proc, di, i, ok, err, matchPat, matchRe, timer, stdout, fwd>>

\* As Collect, but the completion is counted without being reported.
CollectNoReport ==
    /\ proc = "running" /\ mainPc = "collect"
    /\ \E c \in Ctx :
         /\ c[1] = di /\ fwd[c].pc = "send"
         /\ fwd' = [fwd EXCEPT ![c].pc = "done"]
         /\ IF fwd[c].val = NIL
            THEN /\ proc' = "panic: nil dereference"
                 /\ UNCHANGED <<t, stdout, ok, running, mainPc>>
            ELSE /\ ok' = (ok /\ ~t[c].failed)
                 /\ running' = running - 1
                 /\ mainPc' = "drain"
                 /\ UNCHANGED <<t, stdout, proc>>
    /\ UNCHANGED <<gake, config, di, i, numParallel, err, matchPat, matchRe, timer>>

\* As Collect, but a nil *T is skipped over and counted like a completion.
CollectNilCounted ==
    /\ proc = "running" /\ mainPc = "collect"
    /\ \E c \in Ctx :
         /\ c[1] = di /\ fwd[c].pc = "send"
         /\ fwd' = [fwd EXCEPT ![c].pc = "done"]
         /\ t' = [t EXCEPT ![c].reports = @ + 1]
         /\ IF fwd[c].val = NIL
            THEN UNCHANGED <<stdout, ok>>
            ELSE /\ stdout' = stdout \o report(t[c].name, t[c].failed, t[c].skipped,
                                                  t[c].output)
                 /\ ok' = (ok /\ ~t[c].failed)
    /\ running' = running - 1
    /\ mainPc' = "drain"
    /\ UNCHANGED <<gake, config, proc, di, i, numParallel, err, matchPat, matchRe, timer>>

\* t := (<-collector).(*T) from a forwarder of this degree, then t.report(),
\* the fold and running--.  A nil *T makes t.report() dereference nil: a panic
\* in the main goroutine.
Collect ==
    /\ proc = "running" /\ mainPc = "collect"
    /\ \E c \in Ctx :
         /\ c[1] = di /\ fwd[c].pc = "send"
         /\ fwd' = [fwd EXCEPT ![c].pc = "done"]
         /\ IF fwd[c].val = NIL
            THEN /\ proc' = "panic: nil dereference"
                 /\ UNCHANGED <<t, stdout, ok, running, mainPc>>
            ELSE /\ t' = [t EXCEPT ![c].reports = @ + 1]
                 /\ stdout' = stdout \o report(t[c].name, t[c].failed, t[c].skipped,
                                                  t[c].output)
                 /\ ok' = (ok /\ ~t[c].failed)
                 /\ running' = running - 1
                 /\ mainPc' = "drain"
                 /\ proc' = proc
    /\ UNCHANGED <<gake, config, di, i, numParallel, err, matchPat, matchRe, timer>>

\* The forwarder "collector <- <-t.signal": its receive from t.signal.
Forward(c) ==
    /\ proc = "running" /\ fwd[c].pc = "recv" /\ t[c].pc \in {"sendNil", "sendT"}
    /\ IF t[c].pc = "sendNil"
       THEN /\ fwd' = [fwd EXCEPT ![c] = [pc |-> "send", val |-> NIL]]
            /\ t' = [t EXCEPT ![c].pc = "gate"]
       ELSE /\ fwd' = [fwd EXCEPT ![c] = [pc |-> "send", val |-> c]]
            /\ t' = [t EXCEPT ![c] = Exited(t[c])]
    /\ UNCHANGED <<gake, config, proc, mainPc, di, i, numParallel, running, ok, err,
                   matchPat, matchRe, timer, stdout>>

\* ------------------------------------------------------------ Context and tRunner
InBody(c) == proc = "running" /\ t[c].pc = "body"

MoreSteps(c) == t[c].steps < MaxBodyLen

\* Fail: failed = true, the body goes on.
Fail(c) ==
    /\ InBody(c) /\ MoreSteps(c)
    /\ t' = [t EXCEPT ![c].failed = TRUE, ![c].steps = @ + 1]
    /\ UNCHANGED <<gake, config, proc, mainPc, di, i, numParallel, running, ok, err,
                   matchPat, matchRe, timer, stdout, fwd>>

\* Log (and Logf): one more decorated entry in t.output.
Log(c) ==
    /\ InBody(c) /\ MoreSteps(c)
    /\ t' = [t EXCEPT ![c].output = @ + 1, ![c].steps = @ + 1]
    /\ UNCHANGED <<gake, config, proc, mainPc, di, i, numParallel, running, ok, err,
                   matchPat, matchRe, timer, stdout, fwd>>

\* The body registers a cleanup with defer.
Defer(c) ==
    /\ InBody(c) /\ MoreSteps(c)
    /\ t' = [t EXCEPT ![c].defers = @ + 1, ![c].steps = @ + 1]
    /\ UNCHANGED <<gake, config, proc, mainPc, di, i, numParallel, running, ok, err,
                   matchPat, matchRe, timer, stdout, fwd>>

\* Parallel: the task is now sending the nil marker on t.signal; once it is
\* taken the task waits on startParallel (RecvParallel, Forward, Release).
Parallel(c) ==
    /\ InBody(c) /\ MoreSteps(c)
    /\ t' = [t EXCEPT ![c].pc = "sendNil", ![c].parCalls = @ + 1, ![c].steps = @ + 1]
    /\ UNCHANGED <<gake, config, proc, mainPc, di, i, numParallel, running, ok, err,
                   matchPat, matchRe, timer, stdout, fwd>>

\* As FailNow, but without runtime.Goexit: the body goes on.
FailNowNoGoexit(c) ==
    /\ InBody(c)
    /\ t' = [t EXCEPT ![c].failed = TRUE, ![c].finished = TRUE, ![c].kind = "FailNow"]
    /\ UNCHANGED <<gake, config, proc, mainPc, di, i, numParallel, running, ok, err,
                   matchPat, matchRe, timer, stdout, fwd>>

\* FailNow: Fail, finished = true, runtime.Goexit.
FailNow(c) ==
    /\ InBody(c)
    /\ t' = [t EXCEPT ![c].failed = TRUE, ![c].finished = TRUE,
                      ![c].kind = "FailNow", ![c].pc = "unwind"]
    /\ UNCHANGED <<gake, config, proc, mainPc, di, i, numParallel, running, ok, err,
                   matchPat, matchRe, timer, stdout, fwd>>

\* SkipNow: skip, finished = true, runtime.Goexit.
SkipNow(c) ==
    /\ InBody(c)
    /\ t' = [t EXCEPT ![c].skipped = TRUE, ![c].finished = TRUE,
                      ![c].kind = "SkipNow", ![c].pc = "unwind"]
    /\ UNCHANGED <<gake, config, proc, mainPc, di, i, numParallel, running, ok, err,
                   matchPat, matchRe, timer, stdout, fwd>>

\* The body panics, or calls runtime.Goexit itself.
Fault(c) ==
    /\ InBody(c)
    /\ \E k \in {"panic", "Goexit"} :
         t' = [t EXCEPT ![c].kind = k, ![c].pc = "unwind"]
    /\ UNCHANGED <<gake, config, proc, mainPc, di, i, numParallel, running, ok, err,
                   matchPat, matchRe, timer, stdout, fwd>>

\* The body returns.
Return(c) ==
    /\ InBody(c)
    /\ t' = [t EXCEPT ![c].kind = "return", ![c].pc = "unwind"]
    /\ UNCHANGED <<gake, config, proc, mainPc, di, i, numParallel, running, ok, err,
                   matchPat, matchRe, timer, stdout, fwd>>

\* One deferred cleanup of the body runs (they run before tRunner's own).
Cleanup(c) ==
    /\ proc = "running" /\ t[c].pc = "unwind" /\ t[c].defers > 0
    /\ t' = [t EXCEPT ![c].defers = @ - 1, ![c].cleaned = @ + 1]
    /\ UNCHANGED <<gake, config, proc, mainPc, di, i, numParallel, running, ok, err,
                   matchPat, matchRe, timer, stdout, fwd>>

\* As tRunner, but after a fault the task is reported and then sends t like
\* any other task instead of panicking again.
tRunnerFaultSends(c) ==
    /\ proc = "running" /\ t[c].pc = "unwind" /\ t[c].defers = 0
    /\ LET finished == t[c].finished \/ t[c].kind = "return"
           fault == t[c].kind = "panic" \/ ~finished IN
         IF fault
         THEN /\ t' = [t EXCEPT ![c].failed = TRUE, ![c].pc = "sendT"]
              /\ stdout' = stdout \o report(t[c].name, TRUE, t[c].skipped, t[c].output)
         ELSE /\ t' = [t EXCEPT ![c].finished = finished, ![c].pc = "sendT"]
              /\ UNCHANGED stdout
    /\ UNCHANGED <<gake, config, proc, mainPc, di, i, numParallel, running, ok, err,
                   matchPat, matchRe, timer, fwd>>

\* The end of tRunner: "t.finished = true" after a normal return, then the
\* deferred function: a fault (a panic, or finished unset) marks the task
\* failed, reports it and panics again; otherwise the task goes to send t.
tRunner(c) ==
    /\ proc = "running" /\ t[c].pc = "unwind" /\ t[c].defers = 0
    /\ LET finished == t[c].finished \/ t[c].kind = "return"
           fault == t[c].kind = "panic" \/ ~finished IN
         IF fault
         THEN /\ t' = [t EXCEPT ![c].failed = TRUE, ![c].pc = "faulted"]
              /\ stdout' = stdout \o report(t[c].name, TRUE, t[c].skipped, t[c].output)
              /\ proc' = "panic: task fault"
         ELSE /\ t' = [t EXCEPT ![c].finished = finished, ![c].pc = "sendT"]
              /\ UNCHANGED <<stdout, proc>>
    /\ UNCHANGED <<gake, config, mainPc, di, i, numParallel, running, ok, err,
                   matchPat, matchRe, timer, fwd>>

\* ------------------------------------------------------------ specification
Task(c) ==
    \/ Log(c)
    \/ Fail(c)
    \/ Defer(c)
    \/ Parallel(c)
    \/ FailNow(c)
    \/ SkipNow(c)
    \/ Fault(c)
    \/ Return(c)
    \/ Cleanup(c)
    \/ tRunner(c)

Next ==
    \/ startAlarm
    \/ AlarmFires
    \/ stopAlarm
    \/ MainExit
    \/ RunTasks
    \/ NextDegree
    \/ WalkEnd
    \/ WalkInvalid
    \/ WalkContinue
    \/ WalkLaunch
    \/ RecvParallel
    \/ RecvDone
    \/ DrainLoop
    \/ Release
    \/ Collect
    \/ \E c \in Ctx : Forward(c)
    \/ \E c \in Ctx : Task(c)

Spec == Init /\ [][Next]_vars

\* The Go scheduler runs a goroutine that can take a step.
FairSpec == Spec /\ WF_vars(Next)

\* ------------------------------------------------------------ properties
Launched(c) == t[c].launched > 0

\* RunTasks has returned to Main.
Returned == mainPc \in {"stopAlarm", "final", "exit"}

Degrees == 1..Len(cpuList)

Entries == 1..Len(tasks)

\* The tasks of degree d let through the gate whose completion the scheduler
\* has not yet taken from the collector.
Admitted(d) == {c \in Ctx : c[1] = d /\ t[c].released > 0 /\ t[c].reports = 0}

\* C1: the tasks released from the gate and not yet drained from the collector
\* are never more than maxParallel, in any degree.
C1_AdmittedAtMostK == \A d \in Degrees : Cardinality(Admitted(d)) <= parallel

\* Two parallel tasks and maxParallel = 1: one admitted, the other held at the
\* gate while the scheduler waits on the collector.
C1_Witness ==
    /\ parallel = 1 /\ mainPc = "collect"
    /\ \E c1, c2 \in Ctx :
         /\ c1 \in Admitted(di) /\ t[c1].pc = "body"
         /\ c2[1] = di /\ t[c2].pc = "gate" /\ t[c2].released = 0

\* C2: no Context is reported twice by the scheduler, and when RunTasks has
\* returned every task that called Parallel has been reported exactly once.
C2_ParallelReportedOnce ==
    \A c \in Ctx :
        /\ t[c].reports <= 1
        /\ (Returned /\ t[c].parCalls > 0) => t[c].reports = 1

\* RunTasks returned after two tasks of one degree went parallel.
C2_Witness ==
    /\ Returned
    /\ \E c1, c2 \in Ctx :
         /\ c1 # c2 /\ c1[1] = c2[1]
         /\ t[c1].parCalls = 1 /\ t[c2].parCalls = 1
         /\ t[c1].reports = 1 /\ t[c2].reports = 1

\* C3: no registry entry is started twice in a degree, and with the empty
\* pattern every entry has been started exactly once in every degree when
\* RunTasks has returned.
C3_EveryEntryOncePerDegree ==
    /\ \A c \in Ctx : t[c].launched <= 1
    /\ (match = <<>> /\ Returned) =>
           \A d \in Degrees : \A k \in Entries : t[<<d, k>>].launched = 1

\* RunTasks returned from a sweep of two degrees with the empty pattern.
C3_Witness ==
    /\ match = <<>> /\ Returned /\ Len(cpuList) = 2 /\ Len(tasks) > 0
    /\ \A d \in Degrees : \A k \in Entries : t[<<d, k>>].launched = 1

\* The goroutine of Context c has ended.
Ended(c) == t[c].pc \in {"exited", "faulted"}

\* C4 as stated: every Context whose goroutine has ended, whatever its terminal
\* state (an unrecovered fault included), has sent exactly one completion.
C4_EveryEndedContextSentOnce == \A c \in Ctx : Ended(c) => t[c].sends = 1

\* C4 as amended: a Context sends t at most once; one that ended by a normal
\* return, SkipNow or FailNow has sent it exactly once; one that ended by an
\* unrecovered fault has sent none and the process has panicked; the scheduler
\* reports no Context whose t it has not received (a nil marker is not counted);
\* and when RunTasks has returned every launched Context has ended.
C4_CompletionOnceUnlessFault ==
    \A c \in Ctx :
        /\ t[c].sends <= 1
        /\ t[c].pc = "exited" =>
               /\ t[c].sends = 1
               /\ t[c].kind \in {"return", "SkipNow", "FailNow"}
        /\ t[c].pc = "faulted" =>
               /\ t[c].sends = 0
               /\ t[c].kind \in {"panic", "Goexit"}
               /\ proc = "panic: task fault"
        /\ t[c].reports <= t[c].sends
        /\ (Returned /\ Launched(c)) => t[c].pc = "exited"

\* A task that went parallel has sent its nil marker and then its one
\* completion, and the scheduler has reported it.
C4_Witness ==
    \E c \in Ctx :
        /\ t[c].pc = "exited" /\ t[c].parCalls = 1 /\ t[c].released = 1
        /\ t[c].sends = 1 /\ t[c].reports = 1

\* C5: ok is at every moment the conjunction of the not-failed status of the
\* tasks reported so far, and when RunTasks has returned it is the conjunction
\* over every task launched in every degree.
C5_OkIsConjunction ==
    /\ ok = (\A c \in Ctx : t[c].reports > 0 => ~t[c].failed)
    /\ Returned => (ok = (\A c \in Ctx : Launched(c) => ~t[c].failed))

\* A task failed in the first degree and the task of the second degree passed:
\* RunTasks returned false.
C5_Witness ==
    /\ Returned /\ ~ok
    /\ \E c1, c2 \in Ctx :
         /\ c1[1] = 1 /\ c2[1] = 2
         /\ t[c1].reports = 1 /\ t[c1].failed
         /\ t[c2].reports = 1 /\ ~t[c2].failed

\* The run was ended from outside the scheduling protocol: the pattern does
\* not compile, a task faulted, or the alarm went off.
Aborted == proc \in {"panic: task fault", "panic: timed out"} \/ mainPc = "os.Exit"

\* The preconditions of C6 do not hold: maxParallel < 1, or a task has called
\* Parallel more than once.
ContractBroken == parallel < 1 \/ \E c \in Ctx : t[c].parCalls > 1

\* C6: with maxParallel >= 1 and no task calling Parallel twice, a run that is
\* not aborted reaches the return of RunTasks: the scheduler, the tasks at the
\* gate and the forwarders never block one another for ever.
C6_RunTasksReturns == <>(Returned \/ Aborted \/ ContractBroken)

\* RunTasks returned from a degree in which two tasks went parallel and were
\* admitted one after the other (maxParallel = 1).
C6_Witness ==
    /\ Returned /\ parallel = 1 /\ numParallel = 0 /\ running = 0
    /\ \E c1, c2 \in Ctx :
         /\ c1 # c2 /\ c1[1] = c2[1]
         /\ t[c1].released = 1 /\ t[c2].released = 1
         /\ t[c1].pc = "exited" /\ t[c2].pc = "exited"

\* C7: a task that called FailNow executes nothing more of its body (it only
\* unwinds, sends t and ends), and it sends t only when every cleanup it had
\* deferred has run.
C7_FailNowStopsBodyRunsCleanup ==
    \A c \in Ctx :
        t[c].kind = "FailNow" =>
            /\ t[c].pc \in {"unwind", "sendT", "exited"}
            /\ t[c].pc \in {"sendT", "exited"} => t[c].defers = 0

\* A task deferred a cleanup, called FailNow, the cleanup ran, and the task is
\* now sending its completion.
C7_Witness ==
    \E c \in Ctx :
        /\ t[c].kind = "FailNow" /\ t[c].pc = "sendT"
        /\ t[c].cleaned > 0 /\ t[c].defers = 0

\* Context c of a task that called Fail and then returned normally.
FailedAndReturned(c) == t[c].pc = "exited" /\ t[c].kind = "return" /\ t[c].failed

HasLine(line, name) ==
    \E k \in 1..Len(stdout) : stdout[k].line = line /\ stdout[k].name = name

\* C8: a task that called Fail and returned normally is reported FAIL and makes
\* ok false, and when RunTasks has returned every matching entry after it in
\* its degree has been launched and reported.
C8_FailDoesNotHalt ==
    \A c \in Ctx :
        FailedAndReturned(c) =>
            /\ t[c].reports = 1 => (HasLine("--- FAIL", t[c].name) /\ ~ok)
            /\ Returned =>
                   /\ t[c].reports = 1
                   /\ \A k \in Entries :
                          (k > c[2] /\ MatchString(match, tasks[k].Name)) =>
                              /\ t[<<c[1], k>>].launched = 1
                              /\ t[<<c[1], k>>].reports = 1

\* The first entry called Fail and returned, the second was launched and
\* reported after it, and RunTasks returned false.
C8_Witness ==
    /\ Returned /\ ~ok
    /\ \E d \in Degrees :
         /\ FailedAndReturned(<<d, 1>>)
         /\ t[<<d, 1>>].parCalls = 0
         /\ t[<<d, 2>>].reports = 1 /\ ~t[<<d, 2>>].failed

\* Some task was launched, and every launched task ended by SkipNow without
\* having failed.
OnlySkipped ==
    /\ \E c \in Ctx : Launched(c)
    /\ \A c \in Ctx : Launched(c) => (t[c].kind = "SkipNow" /\ ~t[c].failed)

\* C9: when Main has ended a run in which every launched task ended by SkipNow
\* and none failed, RunTasks returned true, the exit code is 0 and the last line
\* printed is PASS.
C9_OnlySkippedPasses ==
    (mainPc = "exit" /\ OnlySkipped) =>
        /\ ok
        /\ proc = "exit0"
        /\ stdout[Len(stdout)] = [line |-> "PASS", name |-> NIL]

\* Main ended a run of two tasks that both skipped.
C9_Witness ==
    /\ mainPc = "exit" /\ OnlySkipped /\ proc = "exit0"
    /\ Cardinality({c \in Ctx : Launched(c) /\ t[c].skipped}) = 2

\* C10: once matchString has returned an error the process has exited with
\* code 1 from RunTasks, no PASS line has been printed and no task has been
\* launched in any degree.
C10_InvalidPatternIsFatal ==
    err =>
        /\ proc = "exit1" /\ mainPc = "os.Exit"
        /\ ~HasLine("PASS", NIL)
        /\ \A c \in Ctx : ~Launched(c)

\* The pattern did not compile and the run of a two-entry registry ended at the
\* first entry.
C10_Witness ==
    /\ err /\ CompileErr(match) /\ Len(tasks) = 2 /\ i = 1 /\ di = 1
    /\ proc = "exit1"

\* The task of Context c panicked or left by runtime.Goexit with finished
\* unset, and tRunner's deferred function has run.
Faulted(c) == t[c].kind \in {"panic", "Goexit"} /\ t[c].pc \notin {"body", "unwind"}

\* The Contexts RunTasks creates after Context c when c runs serially: the
\* later entries of its degree and every entry of the later degrees.
After(c) == {x \in Ctx : x[1] > c[1] \/ (x[1] = c[1] /\ x[2] > c[2])}

\* C11: when a task has faulted it is marked failed, the last line printed is
\* its --- FAIL line with its whole log, the process has panicked, no
\* completion was sent or reported for it, nothing has been launched after it
\* (no later degree; no later entry if it ran serially), and no final line is
\* printed.
C11_FaultIsFatal ==
    \A c \in Ctx :
        Faulted(c) =>
            /\ t[c].failed
            /\ Len(stdout) > 0
            /\ stdout[Len(stdout)] =
                   [line |-> "--- FAIL", name |-> t[c].name, log |-> t[c].output]
            /\ proc = "panic: task fault"
            /\ t[c].sends = 0 /\ t[c].reports = 0
            /\ \A x \in Ctx : x[1] > c[1] => ~Launched(x)
            /\ t[c].parCalls = 0 => \A x \in After(c) : ~Launched(x)
            /\ mainPc # "exit" /\ ~HasLine("PASS", NIL) /\ ~HasLine("FAIL", NIL)

\* The first of two entries logged once and then panicked: the run ended
\* there, with its log reported and the second entry never launched.
C11_Witness ==
    \E d \in Degrees :
        /\ Len(tasks) = 2
        /\ Faulted(<<d, 1>>) /\ t[<<d, 1>>].kind = "panic" /\ t[<<d, 1>>].output = 1
        /\ ~Launched(<<d, 2>>)
        /\ proc = "panic: task fault"

\* The process was ended by the panic of the alarm.
TimedOut == proc = "panic: timed out"

\* C12: the alarm is armed only with a positive timeout; a run the alarm has
\* ended has a positive timeout, has printed no final line and does not end
\* with exit code 0; with a timeout of zero or less the timer is never armed
\* and the run is never ended by the alarm.
C12_TimeoutAborts ==
    /\ timer => timeout > 0
    /\ TimedOut =>
           /\ timeout > 0
           /\ mainPc # "exit"
           /\ ~HasLine("PASS", NIL) /\ ~HasLine("FAIL", NIL)
    /\ timeout <= 0 => (~timer /\ ~TimedOut)

\* The alarm went off while a task that had not failed was still in its body.
C12_Witness ==
    /\ TimedOut /\ ok
    /\ \E c \in Ctx : t[c].pc = "body" /\ ~t[c].failed
    /\ \A c \in Ctx : ~t[c].failed

\* The run has left the sweep: RunTasks returned and stopAlarm was called, or
\* the process ended inside RunTasks (invalid pattern, task fault, nil marker).
EarlyAbort ==
    \/ mainPc = "os.Exit"
    \/ proc \in {"panic: task fault", "panic: nil dereference"}

\* C13 as stated: on every path that leaves the sweep, early aborts included,
\* the alarm has been disarmed.
C13_DisarmedOnEveryPath == (mainPc \in {"final", "exit"} \/ EarlyAbort) => ~timer

\* C13 as amended: the alarm is disarmed when RunTasks has returned and Main
\* has called stopAlarm, and from then on the run is never ended by the alarm;
\* on an early abort stopAlarm is not called and the timer of a positive
\* timeout is still armed when the process ends.
C13_DisarmedOnReturnOnly ==
    /\ mainPc \in {"final", "exit"} => (~timer /\ ~TimedOut)
    /\ EarlyAbort => (timer = (timeout > 0))

\* A run with a positive timeout came to its end with the alarm disarmed.
C13_Witness ==
    /\ timeout > 0 /\ mainPc = "exit" /\ ~timer /\ proc \in {"exit0", "exit1"}
    /\ \E c \in Ctx : t[c].reports = 1

\* Entry k of the registry matches the pattern of the run.
Matches(k) == k \in Entries /\ ~CompileErr(match) /\ MatchString(match, tasks[k].Name)

\* C14: a Context run under degree 1 bears the plain registry name and one run
\* under another degree the name suffixed -<degree>; the degrees are run in
\* list order; and when RunTasks has returned from the sweep <<1, 2>> every
\* matching entry has been run and reported once under each degree, and ok is
\* the conjunction over both.
C14_SweepNamesAndResult ==
    /\ \A c \in Ctx :
         Launched(c) =>
             /\ cpuList[c[1]] = 1 => t[c].name = tasks[c[2]].Name
             /\ cpuList[c[1]] # 1 => t[c].name = tasks[c[2]].Name \o <<"-", cpuList[c[1]]>>
             /\ \A x \in Ctx : (x[1] < c[1] /\ Matches(x[2])) => t[x].reports = 1
    /\ (Returned /\ cpuList = <<1, 2>>) =>
           /\ \A d \in Degrees : \A k \in Entries :
                  Matches(k) => (t[<<d, k>>].launched = 1 /\ t[<<d, k>>].reports = 1)
           /\ ok = (\A d \in Degrees : \A k \in Entries :
                        Matches(k) => ~t[<<d, k>>].failed)

\* The sweep <<1, 2>> is over: the entry ran as "TA" and passed, then as
\* "TA-2" and failed, and RunTasks returned false.
C14_Witness ==
    /\ Returned /\ cpuList = <<1, 2>> /\ ~ok
    /\ t[<<1, 1>>].name = <<"T", "A">> /\ t[<<1, 1>>].reports = 1 /\ ~t[<<1, 1>>].failed
    /\ t[<<2, 1>>].name = <<"T", "A", "-", 2>> /\ t[<<2, 1>>].reports = 1
    /\ t[<<2, 1>>].failed

\* Nothing of Context c is live any more: its goroutine has sent t and ended,
\* it has been reported, and its forwarder, if it had one, has delivered.
Settled(c) ==
    /\ t[c].pc = "exited" /\ t[c].reports = 1
    /\ fwd[c].pc \in {"none", "done"}

\* C15: whenever RunTasks is at degree di, every Context launched in an earlier
\* degree is settled: no task goroutine, gate waiter or forwarder of an earlier
\* degree is live, and nothing of a later degree has been launched.
C15_DegreesDoNotOverlap ==
    \A c \in Ctx :
        /\ (Launched(c) /\ c[1] < di) => Settled(c)
        /\ c[1] > di => (~Launched(c) /\ fwd[c].pc = "none")

\* The second degree has launched its task after a first degree whose task
\* went parallel and was drained.
C15_Witness ==
    /\ di = 2 /\ t[<<2, 1>>].pc = "body"
    /\ t[<<1, 1>>].parCalls = 1 /\ Settled(<<1, 1>>) /\ fwd[<<1, 1>>].pc = "done"

\* Context c was launched and its task has not called Parallel.
Serial(c) == Launched(c) /\ t[c].parCalls = 0

\* The position in stdout of the report line of Context c, 0 if it has none.
ReportPos(c) ==
    LET IsReportOf(k) ==
            /\ stdout[k].line \in {"--- FAIL", "--- SKIP", "--- PASS"}
            /\ stdout[k].name = t[c].name
    IN  IF Launched(c) /\ \E k \in 1..Len(stdout) : IsReportOf(k)
        THEN CHOOSE k \in 1..Len(stdout) : IsReportOf(k)
        ELSE 0

\* C16: a task that has not called Parallel has been reported by the time any
\* later entry of its degree is launched and by the time any parallel task of
\* its degree is reported; and the report lines of two serial tasks of a
\* degree, and of a serial and a parallel one, are printed in that order.
C16_SerialReportedInOrder ==
    \A c, x \in Ctx :
        (c[1] = x[1] /\ c # x /\ Serial(c)) =>
            /\ (x[2] > c[2] /\ Launched(x)) => t[c].reports = 1
            /\ (t[x].parCalls > 0 /\ t[x].reports > 0) => t[c].reports = 1
            /\ (ReportPos(c) > 0 /\ ReportPos(x) > 0
                  /\ (t[x].parCalls > 0 \/ x[2] > c[2])) => ReportPos(c) < ReportPos(x)

\* Verbose run of a parallel task followed by a serial one: the serial task's
\* line is printed first although it is later in the registry.
C16_Witness ==
    \E d \in Degrees :
        /\ t[<<d, 1>>].parCalls = 1 /\ t[<<d, 1>>].reports = 1
        /\ Serial(<<d, 2>>) /\ t[<<d, 2>>].reports = 1
        /\ ReportPos(<<d, 1>>) > ReportPos(<<d, 2>>) /\ ReportPos(<<d, 2>>) > 0

\* The registry walk of degree d is over: the scheduler is in the drain loop of
\* d, or past it.
WalkOver(d) == d < di \/ (d = di /\ mainPc \in {"drain", "release", "collect"})

\* The goroutine of c is between the start of its body and the send of t.
Executing(c) == t[c].pc \in {"body", "unwind", "sendT"}

\* C17: a task that has called Parallel() executes nothing after the call
\* until the registry walk of its degree is over: until then it is sending the
\* marker or waiting at the gate.  Once it is let through, every matching entry
\* of the degree has been launched, every serial one has been reported, and
\* whatever executes while it does has called Parallel() too.
C17_ParallelWaitsForWalk ==
    \A c \in Ctx :
        t[c].parCalls > 0 =>
            /\ t[c].released = 0 => t[c].pc \in {"sendNil", "gate"}
            /\ t[c].released > 0 =>
                  /\ WalkOver(c[1])
                  /\ \A k \in Entries :
                        Matches(k) =>
                            /\ Launched(<<c[1], k>>)
                            /\ Serial(<<c[1], k>>) => t[<<c[1], k>>].reports = 1
                  /\ Executing(c) => \A x \in Ctx : Executing(x) => t[x].parCalls > 0

C17_Witness ==
    \E c, x \in Ctx :
        /\ c[1] = x[1] /\ x[2] > c[2]
        /\ t[c].parCalls = 1 /\ t[c].released = 1 /\ t[c].pc = "body" /\ t[c].steps = 2
        /\ Serial(x) /\ t[x].reports = 1

\* The k-th line of the standard output is Main's final line.
IsFinal(k) == stdout[k].line \in {"PASS", "FAIL"}

\* C18: a run that ends without a fatal abort has printed exactly one final
\* line, as the last line of its output: PASS if no launched task failed (ok is
\* true), FAIL otherwise; the process has exited, with code 0 if and only if
\* ok is true.  A run that has not ended this way has printed no final line.
C18_OneFinalLineAndExitCode ==
    /\ mainPc = "exit" =>
          /\ Len(stdout) > 0
          /\ \A k \in 1..Len(stdout) : IsFinal(k) <=> k = Len(stdout)
          /\ stdout[Len(stdout)].line = (IF ok THEN "PASS" ELSE "FAIL")
          /\ ok <=> \A c \in Ctx : ~t[c].failed
          /\ proc \in {"exit0", "exit1"}
          /\ proc = "exit0" <=> ok
    /\ mainPc # "exit" => \A k \in 1..Len(stdout) : ~IsFinal(k)

C18_Witness ==
    /\ mainPc = "exit" /\ ~ok /\ proc = "exit1"
    /\ Len(stdout) > 2
    /\ \E c \in Ctx : t[c].reports = 1 /\ ~t[c].failed

\* The positions in the standard output of the lines printed about Context c
\* ("=== RUN" and report lines).
LinesOf(c) ==
    IF Launched(c)
    THEN {k \in 1..Len(stdout) : ~IsFinal(k) /\ stdout[k].name = t[c].name}
    ELSE {}

\* C19: with verbose off the output holds nothing but "--- FAIL" lines and
\* the final line.  A launched task has a line (exactly one, "--- FAIL"
\* with its log) if and only if it is failed and has been reported, by the
\* scheduler or by tRunner after a fault; when RunTasks has returned that is
\* if and only if it failed.  A run with no failing task that has ended has
\* printed the final PASS line and nothing else.
C19_QuietReportsOnlyFailures ==
    ~chatty =>
        /\ \A k \in 1..Len(stdout) : IsFinal(k) \/ stdout[k].line = "--- FAIL"
        /\ \A c \in Ctx :
              /\ LinesOf(c) # {} <=>
                    (t[c].failed /\ (t[c].reports > 0 \/ t[c].pc = "faulted"))
              /\ Cardinality(LinesOf(c)) <= 1
              /\ \A k \in LinesOf(c) : stdout[k].log = t[c].output
              /\ Returned => (LinesOf(c) # {} <=> t[c].failed)
        /\ (mainPc = "exit" /\ ok) => stdout = <<[line |-> "PASS", name |-> NIL]>>

C19_Witness ==
    /\ ~chatty /\ mainPc = "exit"
    /\ \E c, x \in Ctx :
          /\ t[c].reports = 1 /\ t[c].skipped /\ t[c].output > 0 /\ LinesOf(c) = {}
          /\ t[x].reports = 1 /\ t[x].failed /\ t[x].output > 0 /\ LinesOf(x) # {}

\* The tasks of degree d blocked in Parallel on the receive from startParallel.
Waiting(d) == {c \in Ctx : c[1] = d /\ t[c].pc = "gate"}

\* The scheduler's two counters agree with the tasks: numParallel counts the
\* tasks of the current degree waiting at the gate, running those let through
\* and not yet collected.
CountsRight ==
    /\ numParallel = Cardinality(Waiting(di))
    /\ running = Cardinality(Admitted(di))

\* No forwarder has taken a nil marker from t.signal in place of the task's
\* completion.
NilNotForwarded == \A c \in Ctx : fwd[c].pc \in {"send", "done"} => fwd[c].val # NIL

SecondParallel == \E c \in Ctx : t[c].parCalls > 1

\* C20: once a task has called Parallel() a second time the run does not go
\* on with a nil marker taken for a completion or with counters that disagree
\* with the tasks, and it prints no final line.
C20_SecondParallelFailsFast ==
    /\ (SecondParallel /\ proc = "running") => (NilNotForwarded /\ CountsRight)
    /\ SecondParallel => mainPc # "exit"

\* ------------------------------------------------------------ properties of the command
\* Run has started the task binary (or tried to).
Ran == executed # NIL

WithPrefix(name) == IF name \in Unprefixed THEN <<"task.">> \o name ELSE name

\* The command line with every task flag given in its prefixed form.
PrefixedLine(flags) == [k \in DOMAIN flags |-> [flags[k] EXCEPT !.name = WithPrefix(@)]]

\* What a set flag is to add to the arguments: nothing for -c, -x and -keep,
\* "-task.<name>" for short and v, "-task.<name>" and the value for the rest.
Forwarded(flags, name) ==
    IF name \in OwnFlags THEN <<>>
    ELSE IF FlagVar(name) \in BoolVars
         THEN << <<"-">> \o WithPrefix(name) >>
         ELSE << <<"-">> \o WithPrefix(name), <<Stored(flags, name)>> >>

RECURSIVE ForwardedFrom(_, _)
ForwardedFrom(flags, k) ==
    IF k > Len(FlagOrder) THEN <<>>
    ELSE (IF FlagOrder[k] \in Actual(flags) THEN Forwarded(flags, FlagOrder[k]) ELSE <<>>)
            \o ForwardedFrom(flags, k + 1)

\* C21: the arguments passed to the task binary are, flag by flag, those the
\* same flag given with the "task." prefix yields: "-task.<name>" and the
\* value for cpu, parallel, run and timeout, "-task.<name>" alone for short
\* and v, and nothing for -c, -x and -keep.
C21_PrefixMakesNoDifference ==
    Ran =>
        /\ \A name \in Actual(cmdline.flags) :
              visit(cmdline.flags, name)
                  = visit(PrefixedLine(cmdline.flags), WithPrefix(name))
        /\ args = ForwardedFrom(cmdline.flags, 1)
                      \o (IF Len(cmdline.extra) > 1
                          THEN << <<"-task.args">> >> \o Words(Tail(cmdline.extra))
                          ELSE <<>>)

\* Neither -c nor -keep was given (or they were given as false).
NeitherGiven == ~BoolFlag(cmdline.flags, "c") /\ ~BoolFlag(cmdline.flags, "keep")

C23_CompileOnlyNeverRuns ==
    BoolFlag(cmdline.flags, "c") => (executed = NIL /\ args = <<>>)

C23_Witness ==
    /\ BoolFlag(cmdline.flags, "c") /\ gakePc = "exit" /\ exitCode = "0"
    /\ cmdPath = LOCAL_BIN /\ fs.binLocal

\* The number of parameters a signature declares.
RECURSIVE NumParams(_)
NumParams(params) ==
    IF params = <<>> THEN 0
    ELSE (IF Head(params).names = 0 THEN 1 ELSE Head(params).names) + NumParams(Tail(params))

\* The signature func(*tasking.T).
RightSign(sig) ==
    /\ ~sig.results /\ NumParams(sig.params) = 1
    /\ sig.params[1].type = StarTaskingT

\* The declarations of f that are named as task functions.
TaskDecls(f) == {k \in DOMAIN f.funcs : IsTaskName(f.funcs[k].name)}

\* Comment c is a build constraint that names gake.
IsBuildGake(c) ==
    /\ c.words[1] = "+build"
    /\ \E k \in 2..Len(c.words) : c.words[k] \in {"gake", "gake\n"}

\* What is wrong with a file that declares a task function, as the errors
\* that answer it.
FileDefects(f) ==
    IF TaskDecls(f) = {} THEN {}
    ELSE {e \in {"FuncSignError", "ImportPathError", "BuildConsError", "BuildConsPosError"} :
            \/ e = "FuncSignError" /\ \E k \in TaskDecls(f) : ~RightSign(f.funcs[k].sig)
            \/ e = "ImportPathError" /\ ~f.imports
            \/ e = "BuildConsError"
                  /\ \A k \in DOMAIN f.comments : ~IsBuildGake(f.comments[k])
            \/ e = "BuildConsPosError"
                  /\ \E k \in DOMAIN f.comments : IsBuildGake(f.comments[k])
                  /\ \A j \in DOMAIN f.comments :
                        IsBuildGake(f.comments[j]) => f.comments[j].after}

\* What is wrong with a task directory, as the errors that answer it (none:
\* the directory is valid).
DirDefects(dir) ==
    IF \E k \in DOMAIN dir : dir[k].syntaxErr THEN {"syntax error"}
    ELSE IF Len(dir) = 0 THEN {"ErrNoTaskfile"}
    ELSE IF Cardinality({dir[k].pkg : k \in DOMAIN dir}) > 1 THEN {"MultiPkgError"}
    ELSE IF \A k \in DOMAIN dir : TaskDecls(dir[k]) = {} THEN {"ErrNoTask"}
    ELSE UNION {FileDefects(dir[k]) : k \in DOMAIN dir}

\* The command ended before it looked at the task directory.
EndedBefore == stderr.err \in {"HOME is not set", "os error"}

\* C24: on a task directory that fails validation the command builds nothing
\* and runs nothing, and when it has ended (past the set-up of its paths) it
\* has printed an error that answers a defect of the directory.
C24_InvalidDirectoryIsRejected ==
    DirDefects(srcDir) # {} =>
        /\ gakePc # "BuildAndRun" /\ pkg = NoPkg
        /\ executed = NIL
        /\ (gakePc = "exit" /\ ~EndedBefore) => stderr.err \in DirDefects(srcDir)

\* ------------------------------------------------------------ ownership and blocking
\* The fields of a Context that its task writes: failed, skipped, finished and
\* output (start and duration are written at the same places as finished).
Fields(x) == <<x.failed, x.skipped, x.finished, x.output>>

\* The goroutine of c is running: in its body, or in the deferred functions.
OwnThread(c) == t[c].pc \in {"body", "unwind"}

MainStep ==
    \/ startAlarm \/ stopAlarm \/ MainExit \/ RunTasks \/ NextDegree
    \/ WalkEnd \/ WalkInvalid \/ WalkContinue \/ WalkLaunch
    \/ RecvParallel \/ RecvDone \/ DrainLoop \/ Release \/ Collect

\* The main goroutine is alive and cannot take its next step by itself.
Blocked == proc = "running" /\ ~ENABLED MainStep

\* C26: the main goroutine waits for another goroutine only at the receive
\* from the launched task's signal channel in the walk and at the receive
\* from the collector in the drain loop; whenever it sends on startParallel
\* a task of the degree is waiting in Parallel to receive.
C26_BlocksOnlyAtTwoReceives ==
    /\ Blocked => mainPc \in {"recv", "collect"}
    /\ (proc = "running" /\ mainPc = "release") => Waiting(di) # {}

C26_Witness ==
    /\ Blocked /\ mainPc = "collect"
    /\ numParallel > 0 /\ running > 0
    /\ \E c \in Waiting(di) : t[c].released = 0

\* ------------------------------------------------------------ the drain counters
\* The Contexts of degree d that have called Parallel and whose completion
\* the scheduler has not reported.
Unreported(d) == {c \in Ctx : c[1] = d /\ t[c].parCalls > 0 /\ t[c].reports = 0}

\* The scheduler is in the drain loop of the current degree.
InDrain == mainPc \in {"drain", "release", "collect"}

\* C27: when no task calls Parallel more than once, in the drain loop of a
\* degree numParallel is the number of tasks of the degree waiting at the
\* gate and numParallel + running the number of its parallel tasks not yet
\* reported; neither counter is ever negative, and both are 0 when the
\* scheduler is between degrees.
C27_DrainCounters ==
    ~SecondParallel =>
        /\ numParallel >= 0 /\ running >= 0
        /\ InDrain => /\ numParallel = Cardinality(Waiting(di))
                      /\ numParallel + running = Cardinality(Unreported(di))
        /\ mainPc = "degree" => (numParallel = 0 /\ running = 0)

C27_Witness ==
    /\ proc = "running" /\ ~SecondParallel /\ mainPc = "collect"
    /\ numParallel = 1 /\ running = 1
    /\ Cardinality(Unreported(di)) = 2

\* ------------------------------------------------------------ the walk is serial
\* The scheduler is in the registry walk of the current degree.
InWalk == mainPc \in {"walk", "recv"}

\* C28: while the scheduler walks the registry of a degree at most one task
\* goroutine executes (its body or its deferred functions), and it is the
\* one launched last; every other task launched in the degree has sent its
\* completion or waits at the gate.
C28_WalkRunsOneTask ==
    InWalk =>
        /\ Cardinality({c \in Ctx : OwnThread(c)}) <= 1
        /\ \A c \in Ctx : OwnThread(c) => (mainPc = "recv" /\ c = Cur)
        /\ \A c \in Ctx :
              (c[1] = di /\ Launched(c) /\ ~(mainPc = "recv" /\ c = Cur)) =>
                  t[c].pc \in {"exited", "gate"}

C28_Witness ==
    /\ mainPc = "recv" /\ OwnThread(Cur) /\ t[Cur].steps > 0
    /\ \E c \in Ctx : c[1] = di /\ c # Cur /\ t[c].pc = "gate"

====
